---- MODULE Spec2Model ----
(***************************************************************************)
(* A model of the notebooks of natsunoyuki/blog_posts.                     *)
(*                                                                         *)
(* physics/3D Time Independent Schrödinger Equation.ipynb:                 *)
(*   schrodinger3D, create_hamiltonian, sho_eigenenergies.Vfun   (Spec)     *)
(* physics/Markov Chain Monte Carlo.ipynb:                                 *)
(*   ising2D, ising_metropolis_2D                                (SpecIsing)*)
(* mathematics/Fourier Transforms in Python.ipynb:                         *)
(*   dft, idft                                                   (SpecDft) *)
(* data_science/Gaussian Process Regression in Python.ipynb:               *)
(*   RBF_kernel, make_RBF_kernel, gaussian_process_predict_mean  (SpecGp)  *)
(*                                                                         *)
(* Each notebook has its own specification; the variables of the other     *)
(* notebooks stay at rest in it.                                           *)
(*                                                                         *)
(* Numbers are exact rationals <<numerator, denominator>> (the rounding of *)
(* IEEE doubles is not modelled).  A scipy sparse matrix is a record       *)
(* [shape |-> <<rows, cols>>, data |-> function from the positions <<r,c>> *)
(* of its nonzero entries to their values], indices from 0 as in Python.   *)
(* A numpy vector is a sequence; Python's v[i] is v[i + 1] here.           *)
(***************************************************************************)
EXTENDS Integers, Sequences, FiniteSets, TLC

\* ------------------------------------------------------------------ bounds

\* Largest point count per axis that a call is given.
MaxN == 3

\* Number of calls of schrodinger3D in one behaviour.
MaxRuns == 2

\* Largest lattice side Nx, Ny given to ising2D, and the largest number of
\* spins that are down in the lattice it is given.
MaxSide == 3
MaxDown == 2

\* Largest warmup_steps and steps given to ising_metropolis_2D.
MaxWarmup == 1
MaxSteps == 2

\* Largest absolute value of an entry of a signal given to dft.
MaxEntry == 1

\* Largest number of rows of the arrays X_data and X of the Gaussian process.
MaxRows == 2

\* ------------------------------------------------------- exact arithmetic

RECURSIVE GCD(_, _)
GCD(a, b) == IF b = 0 THEN a ELSE GCD(b, a % b)

Abs(a) == IF a < 0 THEN -a ELSE a

\* The rational n/d in lowest terms with a positive denominator (d # 0).
Rat(n, d) ==
    LET g == GCD(Abs(n), Abs(d))
        s == IF d < 0 THEN -1 ELSE 1
    IN  <<(s * n) \div g, (s * d) \div g>>

Zero == <<0, 1>>
One == <<1, 1>>
FromInt(n) == <<n, 1>>

RAdd(a, b) == Rat(a[1] * b[2] + b[1] * a[2], a[2] * b[2])
RSub(a, b) == Rat(a[1] * b[2] - b[1] * a[2], a[2] * b[2])
RMul(a, b) == Rat(a[1] * b[1], a[2] * b[2])
RDiv(a, b) == Rat(a[1] * b[2], a[2] * b[1])
RSquare(a) == RMul(a, a)
RAbs(a) == <<Abs(a[1]), a[2]>>
RLess(a, b) == a[1] * b[2] < b[1] * a[2]

\* --------------------------------------------------------- sparse matrices

EmptyData == [rc \in {} |-> Zero]
NoMatrix == [shape |-> <<0, 0>>, data |-> EmptyData]

\* A[r, c]: a position that holds no entry reads as 0.
Get(A, r, c) == IF <<r, c>> \in DOMAIN A.data THEN A.data[<<r, c>>] ELSE Zero

\* A[r, c] = v on a lil matrix: a zero value leaves no stored entry.
SetItem(A, r, c, v) ==
    LET keep == DOMAIN A.data \ {<<r, c>>}
        dom == IF v = Zero THEN keep ELSE keep \cup {<<r, c>>}
    IN  [shape |-> A.shape,
         data |-> [rc \in dom |-> IF rc = <<r, c>> THEN v ELSE A.data[rc]]]

\* sparse.eye(n): ones on the main diagonal.
Eye(n) ==
    [shape |-> <<n, n>>,
     data |-> [rc \in {<<i, i>> : i \in 0..(n - 1)} |-> One]]

\* A * s and A / s for a scalar s.
MScale(A, s) == [shape |-> A.shape, data |-> [rc \in DOMAIN A.data |-> RMul(A.data[rc], s)]]
MDivide(A, s) == [shape |-> A.shape, data |-> [rc \in DOMAIN A.data |-> RDiv(A.data[rc], s)]]

\* A + B for matrices of one shape.
MAdd(A, B) ==
    LET both == DOMAIN A.data \cup DOMAIN B.data
        dom == {rc \in both : RAdd(Get(A, rc[1], rc[2]), Get(B, rc[1], rc[2])) # Zero}
    IN  [shape |-> A.shape,
         data |-> [rc \in dom |-> RAdd(Get(A, rc[1], rc[2]), Get(B, rc[1], rc[2]))]]

\* sparse.kron(A, B): the block matrix whose block (i, j) is A[i, j] * B, so
\* that entry (i * rows(B) + k, j * cols(B) + l) is A[i, j] * B[k, l].
Kron(A, B) ==
    LET nB == B.shape[1]
        mB == B.shape[2]
        pos == {<<p[1] * nB + q[1], p[2] * mB + q[2]>> :
                    p \in DOMAIN A.data, q \in DOMAIN B.data}
    IN  [shape |-> <<A.shape[1] * nB, A.shape[2] * mB>>,
         data |-> [rc \in pos |->
                     RMul(A.data[<<rc[1] \div nB, rc[2] \div mB>>],
                          B.data[<<rc[1] % nB, rc[2] % mB>>])]]

\* ------------------------------------------------------------ numpy pieces

\* np.linspace(start, stop, num) for num >= 0: num evenly spaced samples with
\* both end points; one sample is [start], none is the empty vector.
linspace(start, stop, num) ==
    [t \in 1..num |->
        IF num = 1 THEN FromInt(start)
        ELSE RAdd(FromInt(start), RMul(FromInt(t - 1), Rat(stop - start, num - 1)))]

\* Variant: the difference of the last and the first sample, which a vector
\* of one sample has too.
StepOf_last_minus_first(v) ==
    IF Len(v) < 1 THEN [raises |-> TRUE, val |-> Zero]
    ELSE [raises |-> FALSE, val |-> RSub(v[Len(v)], v[1])]

\* v[1] - v[0] (lines 49, 51, 53): an IndexError when v has no index 1.
StepOf(v) ==
    IF Len(v) < 2 THEN [raises |-> TRUE, val |-> Zero]
    ELSE [raises |-> FALSE, val |-> RSub(v[2], v[1])]

\* np.zeros(M)
zeros(M) == [t \in 1..M |-> Zero]

\* ------------------------------------------------------ create_hamiltonian

\* Variant: only the upper off-diagonal written.
RECURSIVE OffDiagonalLoop_upper_only(_, _, _)
OffDiagonalLoop_upper_only(H, i, Nx) ==
    IF i >= Nx - 1 THEN H
    ELSE OffDiagonalLoop_upper_only(SetItem(H, i, i + 1, FromInt(-1)), i + 1, Nx)

\* for i in range(Nx - 1): H[i, i + 1] = -1; H[i + 1, i] = -1
RECURSIVE OffDiagonalLoop(_, _, _)
OffDiagonalLoop(H, i, Nx) ==
    IF i >= Nx - 1 THEN H
    ELSE OffDiagonalLoop(
            SetItem(SetItem(H, i, i + 1, FromInt(-1)), i + 1, i, FromInt(-1)),
            i + 1, Nx)

\* Variant: the stencil divided by dx instead of dx ** 2.
create_hamiltonian_unsquared(Nx, dx) ==
    MDivide(OffDiagonalLoop(MScale(Eye(Nx), FromInt(2)), 0, Nx), dx)

\* Variant: the stencil of a periodic axis, its two ends coupled.
create_hamiltonian_periodic(Nx, dx) ==
    MDivide(SetItem(SetItem(OffDiagonalLoop(MScale(Eye(Nx), FromInt(2)), 0, Nx),
                            0, Nx - 1, FromInt(-1)),
                    Nx - 1, 0, FromInt(-1)),
            RSquare(dx))

\* The 1D numerical Hamiltonian: eye * 2, the two off-diagonals, / dx ** 2.
create_hamiltonian(Nx, dx) ==
    MDivide(OffDiagonalLoop(MScale(Eye(Nx), FromInt(2)), 0, Nx), RSquare(dx))

\* -------------------------------------------------- sho_eigenenergies.Vfun

\* The harmonic oscillator potential at (X[i], Y[j], Z[k]).
VfunValue(X, Y, Z, params, i, j, k) ==
    RAdd(RAdd(RMul(FromInt(params[1]), RSquare(X[i + 1])),
              RMul(FromInt(params[2]), RSquare(Y[j + 1]))),
         RMul(FromInt(params[3]), RSquare(Z[k + 1])))

\* for k in range(Nz): V[vindex] = ...; vindex = vindex + 1
RECURSIVE VfunLoopK(_, _, _, _, _, _, _, _)
VfunLoopK(X, Y, Z, params, i, j, k, st) ==
    IF k >= Len(Z) THEN st
    ELSE VfunLoopK(X, Y, Z, params, i, j, k + 1,
            [V |-> [st.V EXCEPT ![st.vindex + 1] = VfunValue(X, Y, Z, params, i, j, k)],
             vindex |-> st.vindex + 1])

\* for j in range(Ny): ...
RECURSIVE VfunLoopJ(_, _, _, _, _, _, _)
VfunLoopJ(X, Y, Z, params, i, j, st) ==
    IF j >= Len(Y) THEN st
    ELSE VfunLoopJ(X, Y, Z, params, i, j + 1, VfunLoopK(X, Y, Z, params, i, j, 0, st))

\* for i in range(Nx): ...
RECURSIVE VfunLoopI(_, _, _, _, _, _)
VfunLoopI(X, Y, Z, params, i, st) ==
    IF i >= Len(X) THEN st
    ELSE VfunLoopI(X, Y, Z, params, i + 1, VfunLoopJ(X, Y, Z, params, i, 0, st))

\* Variant: the first parameter doubled in place in the caller's list.
Vfun_scales_params(X, Y, Z, params) ==
    [V |-> VfunLoopI(X, Y, Z, params, 0,
                     [V |-> zeros(Len(X) * Len(Y) * Len(Z)), vindex |-> 0]).V,
     params |-> [params EXCEPT ![1] = 2 * params[1]]]

\* Vfun(X, Y, Z, params): the flat potential vector of length Nx * Ny * Nz.
\* params is the caller's list, passed by reference: the result names the
\* vector returned and the list as the call leaves it (Vfun only reads it).
Vfun(X, Y, Z, params) ==
    [V |-> VfunLoopI(X, Y, Z, params, 0,
                     [V |-> zeros(Len(X) * Len(Y) * Len(Z)), vindex |-> 0]).V,
     params |-> params]

\* ----------------------------------------------------------- schrodinger3D

\* Variant: the first operator used in both terms.
TensorSum_same_operator(Ha, Hb, Na, Nb) == MAdd(Kron(Eye(Nb), Ha), Kron(Ha, Eye(Na)))

\* Line 68: Hxy = sparse.kron(Iy, Hx) + sparse.kron(Hy, Ix), for operators
\* Ha of size Na and Hb of size Nb.
TensorSum(Ha, Hb, Na, Nb) == MAdd(Kron(Eye(Nb), Ha), Kron(Hb, Eye(Na)))

\* Variant: the 3D operator without the term of the z axis.
Kinetic3D_without_z(Hxy, Hz, Nx, Ny, Nz) == Kron(Eye(Nz), Hxy)

\* Lines 69-70: Ixy = sparse.kron(Iy, Ix)
\*              H = sparse.kron(Iz, Hxy) + sparse.kron(Hz, Ixy)
Kinetic3D(Hxy, Hz, Nx, Ny, Nz) ==
    LET Ixy == Kron(Eye(Ny), Eye(Nx))
    IN  MAdd(Kron(Eye(Nz), Hxy), Kron(Hz, Ixy))

\* The row of H that the Kronecker products of lines 68-70 give the grid
\* point (x[i], y[j], z[k]): kron(A, B) puts the index of B innermost, so x
\* runs fastest and z slowest.
BasisIndex(i, j, k, Nx, Ny) == k * (Nx * Ny) + j * Nx + i

\* The grid point <<i, j, k>> that row p of H stands for.
GridPoint(p, Nx, Ny) == <<p % Nx, (p \div Nx) % Ny, p \div (Nx * Ny)>>

\* Variant: the loop bound without the third axis.
PotentialRange_two_axes(Nx, Ny, Nz) == Nx * Ny

\* The bound of the potential loop: range(Nx * Ny * Nz).
PotentialRange(Nx, Ny, Nz) == Nx * Ny * Nz

\* Variant: the sum stored into the potential vector instead of the matrix.
AddPotentialAt_into_V(H, V, i) ==
    [H |-> H, V |-> [V EXCEPT ![i + 1] = RAdd(Get(H, i, i), V[i + 1])]]

\* Variant: the sum written one column to the right of the diagonal.
AddPotentialAt_off_diagonal(H, V, i) ==
    [H |-> SetItem(H, i, (i + 1) % H.shape[2], RAdd(Get(H, i, i), V[i + 1])), V |-> V]

\* One pass of the loop body, H[i, i] = H[i, i] + V[i], on the two objects
\* it names: the matrix is written, the vector only read.
AddPotentialAt(H, V, i) ==
    [H |-> SetItem(H, i, i, RAdd(Get(H, i, i), V[i + 1])), V |-> V]

\* The keyword defaults of the signature: E0=0.0, findpsi=False.  An optional
\* argument is <<>> when the caller leaves it out and <<v>> when it is given.
DefaultE0(opt) == IF opt = <<>> THEN Zero ELSE opt[1]
DefaultFindpsi(opt) == IF opt = <<>> THEN FALSE ELSE opt[1]

\* Variant: the shift fixed at 0, whatever E0 is.
EigsCall_zero_shift(H, neigs, E0) == [A |-> H, k |-> neigs, sigma |-> <<Zero>>]

\* What sla.eigs is called with at line 79.
EigsCall(H, neigs, E0) == [A |-> H, k |-> neigs, sigma |-> <<E0>>]

\* scipy.sparse.linalg.eigs(A, k, sigma): it raises when k is not in
\* 1..n-2 for a sparse n x n matrix, and may fail to converge otherwise.
EigsOutcomes(call) ==
    IF call.k < 1 \/ call.k >= call.A.shape[1] - 1 THEN {"raise"} ELSE {"ok", "raise"}

\* The eigenvalues (eigenvectors) that eigs finds for a call: the call.k ones
\* nearest the shift, of which the model keeps what determines them.
Eigenvalues(call) == [what |-> "eigenvalues", of |-> call]
Eigenvectors(call) == [what |-> "eigenvectors", of |-> call]
NoEigen == [what |-> "none", of |-> EigsCall(NoMatrix, 0, Zero)]

\* Variant: the five values returned whatever findpsi is.
ReturnValue_always_all(fp, evl, evt, x, y, z) == <<evl, evt, x, y, z>>

\* Lines 81-84: what the call returns.
ReturnValue(fp, evl, evt, x, y, z) ==
    IF fp = FALSE THEN <<evl>> ELSE <<evl, evt, x, y, z>>

\* ------------------------------------------------------------------ inputs

NVals == (-1)..MaxN
\* (xmin, xmax), (ymin, ymax), (zmin, zmax)
Domains == { << <<-1, 1>>, <<-1, 1>>, <<-1, 1>> >>,
             << <<-1, 1>>, <<0, 1>>, <<0, 2>> >> }
ParamsVals == { <<1, 1, 1>>, <<1, 2, 3>> }
NeigsVals == {1, 9}
E0Vals == { <<>>, <<FromInt(3)>> }
FindpsiVals == { <<>>, <<FALSE>>, <<TRUE>> }

Inputs ==
    [dom : Domains, Nx : NVals, Ny : NVals, Nz : NVals,
     params : ParamsVals, neigs : NeigsVals, E0 : E0Vals, findpsi : FindpsiVals]

\* ------------------------------------------------------------------- state

VARIABLES
    pc,        \* the statement the running call is at; "idle" between calls
    run,       \* calls started so far
    args,      \* the arguments of the call, as the caller holds them
    E0,        \* the parameters E0 and findpsi with their defaults applied
    findpsi,
    x, y, z,   \* locals of schrodinger3D
    dx, dy, dz,
    V,         \* the vector the potential function returned
    Hx, Hy, Hz,
    Hxy,
    H,
    i,         \* the index of the potential loop
    visited,   \* the indices the potential loop has written, in order
    evl, evt,
    eigsLog,   \* the calls of the eigensolver made by this call
    ret,       \* how the last call ended
    prev       \* what the call before this one assembled and returned

schrodingerVars ==
    <<pc, run, args, E0, findpsi, x, y, z, dx, dy, dz, V, Hx, Hy, Hz, Hxy, H,
      i, visited, evl, evt, eigsLog, ret, prev>>

\* Markov Chain Monte Carlo.ipynb
VARIABLES
    ipc,       \* the statement ising_metropolis_2D is at
    iargs,     \* its arguments T, H, J, Nx, Ny, warmup_steps, steps
    temp,      \* the index t of the temperature loop
    spin,      \* the lattice, folded to one dimension
    pflip,     \* the flip table of the temperature
    iter,      \* the index n of the warmup or measurement loop
    M,         \* the magnetization per temperature
    last,      \* what the last call of ising2D drew, read and did
    trace,     \* per temperature started, what ran in it, in order
    iret       \* how the call of ising_metropolis_2D ended

isingVars == <<ipc, iargs, temp, spin, pflip, iter, M, last, trace, iret>>

\* Fourier Transforms in Python.ipynb
VARIABLES
    fpc,       \* which of dft and idft has been applied
    fX,        \* the signal
    fx,        \* dft(fX)
    fback      \* idft(fx)

dftVars == <<fpc, fX, fx, fback>>

\* Gaussian Process Regression in Python.ipynb
VARIABLES
    gpc,       \* the cell the notebook is at
    gX,        \* the notebook's global X: <<>> while no cell has assigned it
    gargs,     \* the arguments of gaussian_process_predict_mean
    gret       \* how its call ended

gpVars == <<gpc, gX, gargs, gret>>

\* The geocoding notebook: dd_2_dms
VARIABLES
    dmsPc,     \* whether dd_2_dms has been called
    dmsArg,    \* its argument dd
    dmsRet     \* the tuple it returned

dmsVars == <<dmsPc, dmsArg, dmsRet>>

\* 3D Time Independent Schrödinger Equation.ipynb: sho_eigenenergies
VARIABLES
    shoPc,       \* the statement sho_eigenenergies is at
    shoArgs,     \* its argument neigs
    shoEvl,      \* what schrodinger3D returned to it
    shoIndices,  \* np.argsort(evl)
    shoPrinted,  \* the lines printed so far
    shoRet       \* how the call ended

shoVars == <<shoPc, shoArgs, shoEvl, shoIndices, shoPrinted, shoRet>>

vars == <<schrodingerVars, isingVars, dftVars, gpVars, dmsVars, shoVars>>

\* What a specification leaves alone: the variables of the other notebooks.
notSchrodinger == <<isingVars, dftVars, gpVars, dmsVars, shoVars>>
notIsing == <<schrodingerVars, dftVars, gpVars, dmsVars, shoVars>>
notDft == <<schrodingerVars, isingVars, gpVars, dmsVars, shoVars>>
notGp == <<schrodingerVars, isingVars, dftVars, dmsVars, shoVars>>
notDms == <<schrodingerVars, isingVars, dftVars, gpVars, shoVars>>
notSho == <<schrodingerVars, isingVars, dftVars, gpVars, dmsVars>>

NoRet == [kind |-> "none", exc |-> "", line |-> 0, val |-> <<>>]
Raised(exc, line) == [kind |-> "raise", exc |-> exc, line |-> line, val |-> <<>>]
Returned(val) == [kind |-> "value", exc |-> "", line |-> 0, val |-> val]

NoPrev == [H |-> NoMatrix, ret |-> NoRet, eigsLog |-> <<>>]

\* A notebook that is not run: its variables hold nothing.
IsingAtRest ==
    /\ ipc = "off"
    /\ iargs = <<>>
    /\ temp = 0
    /\ spin = <<>>
    /\ pflip = <<>>
    /\ iter = 0
    /\ M = <<>>
    /\ last = <<>>
    /\ trace = <<>>
    /\ iret = NoRet

DftAtRest ==
    /\ fpc = "off"
    /\ fX = <<>>
    /\ fx = <<>>
    /\ fback = <<>>

GpAtRest ==
    /\ gpc = "off"
    /\ gX = <<>>
    /\ gargs = <<>>
    /\ gret = NoRet

DmsAtRest ==
    /\ dmsPc = "off"
    /\ dmsArg = Zero
    /\ dmsRet = <<>>

ShoAtRest ==
    /\ shoPc = "off"
    /\ shoArgs = <<>>
    /\ shoEvl = <<>>
    /\ shoIndices = <<>>
    /\ shoPrinted = <<>>
    /\ shoRet = NoRet

SchrodingerLocalsUnset ==
    /\ E0 = Zero
    /\ findpsi = FALSE
    /\ x = <<>> /\ y = <<>> /\ z = <<>>
    /\ dx = Zero /\ dy = Zero /\ dz = Zero
    /\ V = <<>>
    /\ Hx = NoMatrix /\ Hy = NoMatrix /\ Hz = NoMatrix
    /\ Hxy = NoMatrix
    /\ H = NoMatrix
    /\ i = 0
    /\ visited = <<>>
    /\ evl = NoEigen /\ evt = NoEigen
    /\ eigsLog = <<>>
    /\ ret = NoRet
    /\ prev = NoPrev

SchrodingerAtRest ==
    /\ pc = "off"
    /\ run = 0
    /\ args = <<>>
    /\ SchrodingerLocalsUnset

Init ==
    /\ IsingAtRest /\ DftAtRest /\ GpAtRest /\ DmsAtRest /\ ShoAtRest
    /\ pc = "idle"
    /\ run = 0
    /\ args \in Inputs
    /\ E0 = Zero
    /\ findpsi = FALSE
    /\ x = <<>> /\ y = <<>> /\ z = <<>>
    /\ dx = Zero /\ dy = Zero /\ dz = Zero
    /\ V = <<>>
    /\ Hx = NoMatrix /\ Hy = NoMatrix /\ Hz = NoMatrix
    /\ Hxy = NoMatrix
    /\ H = NoMatrix
    /\ i = 0
    /\ visited = <<>>
    /\ evl = NoEigen /\ evt = NoEigen
    /\ eigsLog = <<>>
    /\ ret = NoRet
    /\ prev = NoPrev

\* A call starts with a fresh frame: the parameters bound, no local assigned.
Enter ==
    /\ pc' = "grid_x"
    /\ run' = run + 1
    /\ E0' = DefaultE0(args.E0)
    /\ findpsi' = DefaultFindpsi(args.findpsi)
    /\ x' = <<>> /\ y' = <<>> /\ z' = <<>>
    /\ dx' = Zero /\ dy' = Zero /\ dz' = Zero
    /\ V' = <<>>
    /\ Hx' = NoMatrix /\ Hy' = NoMatrix /\ Hz' = NoMatrix
    /\ Hxy' = NoMatrix
    /\ H' = NoMatrix
    /\ i' = 0
    /\ visited' = <<>>
    /\ evl' = NoEigen /\ evt' = NoEigen
    /\ eigsLog' = <<>>
    /\ ret' = NoRet
    /\ UNCHANGED args
    /\ UNCHANGED notSchrodinger

\* The caller calls schrodinger3D with the arguments it holds.
Call ==
    /\ pc = "idle"
    /\ run = 0
    /\ Enter
    /\ UNCHANGED prev

\* The caller calls again with the same arguments.
Rerun ==
    /\ pc = "idle"
    /\ run >= 1
    /\ run < MaxRuns
    /\ prev' = [H |-> H, ret |-> ret, eigsLog |-> eigsLog]
    /\ Enter

\* Variant: the failure of the eigensolver swallowed, the call returning a
\* value in place of the eigenvalues.
Raise_returns_nothing(exc, line) ==
    /\ pc' = "idle"
    /\ ret' = IF line = 79 THEN Returned(<<NoEigen>>) ELSE Raised(exc, line)

\* The call ends by an exception raised at a line.
Raise(exc, line) ==
    /\ pc' = "idle"
    /\ ret' = Raised(exc, line)

\* Lines 48-49: x = np.linspace(xmin, xmax, Nx); dx = x[1] - x[0]
GridX ==
    /\ pc = "grid_x"
    /\ IF args.Nx < 0
       THEN Raise("ValueError", 48) /\ UNCHANGED <<x, dx>>
       ELSE /\ x' = linspace(args.dom[1][1], args.dom[1][2], args.Nx)
            /\ IF StepOf(x').raises
               THEN Raise("IndexError", 49) /\ UNCHANGED dx
               ELSE dx' = StepOf(x').val /\ pc' = "grid_y" /\ UNCHANGED ret
    /\ UNCHANGED <<run, args, E0, findpsi, y, z, dy, dz, V, Hx, Hy, Hz, Hxy, H, i,
                   visited, evl, evt, eigsLog, prev>>
    /\ UNCHANGED notSchrodinger

\* Lines 50-51: y = np.linspace(ymin, ymax, Ny); dy = y[1] - y[0]
GridY ==
    /\ pc = "grid_y"
    /\ IF args.Ny < 0
       THEN Raise("ValueError", 50) /\ UNCHANGED <<y, dy>>
       ELSE /\ y' = linspace(args.dom[2][1], args.dom[2][2], args.Ny)
            /\ IF StepOf(y').raises
               THEN Raise("IndexError", 51) /\ UNCHANGED dy
               ELSE dy' = StepOf(y').val /\ pc' = "grid_z" /\ UNCHANGED ret
    /\ UNCHANGED <<run, args, E0, findpsi, x, z, dx, dz, V, Hx, Hy, Hz, Hxy, H, i,
                   visited, evl, evt, eigsLog, prev>>
    /\ UNCHANGED notSchrodinger

\* Lines 52-53: z = np.linspace(zmin, zmax, Nz); dz = z[1] - z[0]
GridZ ==
    /\ pc = "grid_z"
    /\ IF args.Nz < 0
       THEN Raise("ValueError", 52) /\ UNCHANGED <<z, dz>>
       ELSE /\ z' = linspace(args.dom[3][1], args.dom[3][2], args.Nz)
            /\ IF StepOf(z').raises
               THEN Raise("IndexError", 53) /\ UNCHANGED dz
               ELSE dz' = StepOf(z').val /\ pc' = "potential" /\ UNCHANGED ret
    /\ UNCHANGED <<run, args, E0, findpsi, x, y, dx, dy, V, Hx, Hy, Hz, Hxy, H, i,
                   visited, evl, evt, eigsLog, prev>>
    /\ UNCHANGED notSchrodinger

\* Line 55: V = Vfun3D(x, y, z, params)
Potential ==
    /\ pc = "potential"
    /\ LET r == Vfun(x, y, z, args.params)
       IN  /\ V' = r.V
           /\ args' = [args EXCEPT !.params = r.params]
    /\ pc' = "operators"
    /\ UNCHANGED <<run, E0, findpsi, x, y, z, dx, dy, dz, Hx, Hy, Hz, Hxy, H, i,
                   visited, evl, evt, eigsLog, ret, prev>>
    /\ UNCHANGED notSchrodinger

\* Variant: the three operators scaled by the step of the x axis.
Operators_one_step ==
    /\ pc = "operators"
    /\ Hx' = create_hamiltonian(args.Nx, dx)
    /\ Hy' = create_hamiltonian(args.Ny, dx)
    /\ Hz' = create_hamiltonian(args.Nz, dx)
    /\ pc' = "kron"
    /\ UNCHANGED <<run, args, E0, findpsi, x, y, z, dx, dy, dz, V, Hxy, H, i,
                   visited, evl, evt, eigsLog, ret, prev>>
    /\ UNCHANGED notSchrodinger

\* Lines 58-60: the 1D Hamiltonian of each axis.
Operators ==
    /\ pc = "operators"
    /\ Hx' = create_hamiltonian(args.Nx, dx)
    /\ Hy' = create_hamiltonian(args.Ny, dy)
    /\ Hz' = create_hamiltonian(args.Nz, dz)
    /\ pc' = "kron"
    /\ UNCHANGED <<run, args, E0, findpsi, x, y, z, dx, dy, dz, V, Hxy, H, i,
                   visited, evl, evt, eigsLog, ret, prev>>
    /\ UNCHANGED notSchrodinger

\* Lines 62-73: the 3D operator, converted to lil form.
Combine ==
    /\ pc = "kron"
    /\ Hxy' = TensorSum(Hx, Hy, args.Nx, args.Ny)
    /\ H' = Kinetic3D(Hxy', Hz, args.Nx, args.Ny, args.Nz)
    /\ i' = 0
    /\ pc' = "add_potential"
    /\ UNCHANGED <<run, args, E0, findpsi, x, y, z, dx, dy, dz, V, Hx, Hy, Hz,
                   visited, evl, evt, eigsLog, ret, prev>>
    /\ UNCHANGED notSchrodinger

\* Lines 74-75: one pass of the potential loop, or its end.
AddPotential ==
    /\ pc = "add_potential"
    /\ IF i < PotentialRange(args.Nx, args.Ny, args.Nz)
       THEN /\ LET r == AddPotentialAt(H, V, i)
               IN  H' = r.H /\ V' = r.V
            /\ visited' = Append(visited, i)
            /\ i' = i + 1
            /\ UNCHANGED pc
       ELSE /\ pc' = "solve"
            /\ UNCHANGED <<H, V, visited, i>>
    /\ UNCHANGED <<run, args, E0, findpsi, x, y, z, dx, dy, dz, Hx, Hy, Hz, Hxy,
                   evl, evt, eigsLog, ret, prev>>
    /\ UNCHANGED notSchrodinger

\* Lines 78-79: [evl, evt] = sla.eigs(H, k=neigs, sigma=E0)
Solve ==
    /\ pc = "solve"
    /\ LET call == EigsCall(H, args.neigs, E0)
       IN  /\ eigsLog' = Append(eigsLog, call)
           /\ \E outcome \in EigsOutcomes(call) :
                IF outcome = "raise"
                THEN Raise("EigsError", 79) /\ UNCHANGED <<evl, evt>>
                ELSE /\ evl' = Eigenvalues(call)
                     /\ evt' = Eigenvectors(call)
                     /\ pc' = "return"
                     /\ UNCHANGED ret
    /\ UNCHANGED <<run, args, E0, findpsi, x, y, z, dx, dy, dz, V, Hx, Hy, Hz, Hxy, H,
                   i, visited, prev>>
    /\ UNCHANGED notSchrodinger

\* Lines 81-84: return evl, or evl, evt, x, y, z
Return ==
    /\ pc = "return"
    /\ ret' = Returned(ReturnValue(findpsi, evl, evt, x, y, z))
    /\ pc' = "idle"
    /\ UNCHANGED <<run, args, E0, findpsi, x, y, z, dx, dy, dz, V, Hx, Hy, Hz, Hxy, H,
                   i, visited, evl, evt, eigsLog, prev>>
    /\ UNCHANGED notSchrodinger

Next ==
    \/ Call
    \/ Rerun
    \/ GridX
    \/ GridY
    \/ GridZ
    \/ Potential
    \/ Operators
    \/ Combine
    \/ AddPotential
    \/ Solve
    \/ Return

Spec == Init /\ [][Next]_vars

\* ------------------------------------------------------------------ claims

\* The number of grid points of the call.
GridSize == args.Nx * args.Ny * args.Nz

\* The point counts of the call allow a grid (a step on every axis).
ValidCounts == args.Nx >= 2 /\ args.Ny >= 2 /\ args.Nz >= 2

\* The call has started and not yet been replaced by the next one.
Started == run >= 1

\* BasisIndex is the order of the Kronecker products: in the operator of line
\* 70, before the potential is added, one step along x (y, z) from a grid
\* point is coupled by the entry of Hx (Hy, Hz) for that step.
BasisOrderOfKron ==
    (pc = "add_potential" /\ i = 0) =>
        \A ii \in 0..(args.Nx - 1), jj \in 0..(args.Ny - 1), kk \in 0..(args.Nz - 1) :
            LET p == BasisIndex(ii, jj, kk, args.Nx, args.Ny)
            IN  /\ GridPoint(p, args.Nx, args.Ny) = <<ii, jj, kk>>
                /\ ii + 1 < args.Nx =>
                     Get(H, p, BasisIndex(ii + 1, jj, kk, args.Nx, args.Ny)) = Get(Hx, ii, ii + 1)
                /\ jj + 1 < args.Ny =>
                     Get(H, p, BasisIndex(ii, jj + 1, kk, args.Nx, args.Ny)) = Get(Hy, jj, jj + 1)
                /\ kk + 1 < args.Nz =>
                     Get(H, p, BasisIndex(ii, jj, kk + 1, args.Nx, args.Ny)) = Get(Hz, kk, kk + 1)

\* C1: for every grid point (x[i], y[j], z[k]) the potential value that Vfun
\* computes for that point is what schrodinger3D adds to the diagonal entry
\* of H whose Kronecker basis index stands for the same grid point, for all
\* point counts and all potential parameters.
C1_PotentialOnSameGridPoint ==
    pc = "solve" =>
        LET K == Kinetic3D(Hxy, Hz, args.Nx, args.Ny, args.Nz)
        IN  \A ii \in 0..(args.Nx - 1), jj \in 0..(args.Ny - 1), kk \in 0..(args.Nz - 1) :
                LET p == BasisIndex(ii, jj, kk, args.Nx, args.Ny)
                IN  RSub(Get(H, p, p), Get(K, p, p))
                        = VfunValue(x, y, z, args.params, ii, jj, kk)

\* The stencil matrix of N points and step d: 2/d^2 on the diagonal, -1/d^2
\* at offsets +1 and -1, 0 elsewhere.
IsStencil(Hm, N, d) ==
    /\ Hm.shape = <<N, N>>
    /\ DOMAIN Hm.data \subseteq (0..(N - 1)) \X (0..(N - 1))
    /\ \A r \in 0..(N - 1), c \in 0..(N - 1) :
         Get(Hm, r, c) = IF r = c THEN RDiv(FromInt(2), RSquare(d))
                         ELSE IF r - c \in {-1, 1} THEN RDiv(FromInt(-1), RSquare(d))
                         ELSE Zero

\* A matrix equals the one written as rows of integers.
EqualsDense(Hm, rows) ==
    /\ Hm.shape = <<Len(rows), Len(rows[1])>>
    /\ \A r \in 0..(Len(rows) - 1), c \in 0..(Len(rows[1]) - 1) :
         Get(Hm, r, c) = FromInt(rows[r + 1][c + 1])

\* The 1D operators have been built (lines 58-60 have run).
OperatorsBuilt == pc \in {"kron", "add_potential", "solve", "return"}

\* The 3D operator has been combined (lines 62-73 have run).
Combined == pc \in {"add_potential", "solve", "return"}

\* C2: create_hamiltonian(N, dx) is the N x N matrix with 2/dx^2 on the
\* diagonal, -1/dx^2 at offsets +1 and -1 and 0 elsewhere; for N = 3 and
\* dx = 1 it is exactly [[2,-1,0],[-1,2,-1],[0,-1,2]].
C2_Stencil ==
    OperatorsBuilt =>
        /\ IsStencil(Hx, args.Nx, dx)
        /\ IsStencil(Hy, args.Ny, dy)
        /\ IsStencil(Hz, args.Nz, dz)
        /\ (args.Nx = 3 /\ dx = One) =>
             EqualsDense(Hx, << <<2, -1, 0>>, <<-1, 2, -1>>, <<0, -1, 2>> >>)

C2_Witness ==
    /\ pc = "kron"
    /\ args.Nx = 3 /\ dx = One
    /\ args.Ny = 2 /\ dy # One

\* C3: kron(Ib, Ha) + kron(Hb, Ia), as built for Hxy, has size
\* (Na*Nb) x (Na*Nb), is symmetric, and its diagonal entry at combined index
\* b*Na + a is Ha[a,a] + Hb[b,b].
C3_TensorSum ==
    Combined =>
        LET n == args.Nx * args.Ny
        IN  /\ Hxy.shape = <<n, n>>
            /\ DOMAIN Hxy.data \subseteq (0..(n - 1)) \X (0..(n - 1))
            /\ \A rc \in DOMAIN Hxy.data : Get(Hxy, rc[2], rc[1]) = Hxy.data[rc]
            /\ \A a \in 0..(args.Nx - 1), b \in 0..(args.Ny - 1) :
                 Get(Hxy, b * args.Nx + a, b * args.Nx + a)
                    = RAdd(Get(Hx, a, a), Get(Hy, b, b))

C3_Witness ==
    /\ pc = "add_potential"
    /\ args.Nx = 2 /\ args.Ny = 3
    /\ dx # dy

\* C4: a call with neigs greater than Nx*Ny*Nz fails before the eigensolver
\* is invoked: the solve is never attempted.
C4_TooManyFailsBeforeSolve ==
    (Started /\ args.neigs > GridSize) =>
        /\ eigsLog = <<>>
        /\ pc = "idle" => ret.kind = "raise"

\* C5: a call with a point count below 2 on some axis fails and returns no
\* result, before the potential function is evaluated, before any
\* Hamiltonian is assembled and before the eigensolver is invoked.
C5_TooFewPointsFailsEarly ==
    (Started /\ ~ValidCounts) =>
        /\ pc \in {"grid_x", "grid_y", "grid_z", "idle"}
        /\ V = <<>>
        /\ Hx = NoMatrix /\ Hy = NoMatrix /\ Hz = NoMatrix
        /\ Hxy = NoMatrix /\ H = NoMatrix
        /\ eigsLog = <<>>
        /\ pc = "idle" =>
             /\ ret.kind = "raise"
             /\ ret.exc \in {"IndexError", "ValueError"}
             /\ ret.line \in 48..53
             /\ ret.val = <<>>

C5_Witness ==
    /\ pc = "idle"
    /\ args.Nx >= 2 /\ args.Ny >= 2 /\ args.Nz = 1
    /\ ret.kind = "raise"
    /\ ret.line = 53

\* The indices i and j are the two ends of an axis of n >= 3 points.
OppositeEnds(n, a, b) == n >= 3 /\ ((a = 0 /\ b = n - 1) \/ (a = n - 1 /\ b = 0))

\* C6: no wraparound terms.  For N >= 3 the corner entries H[0,N-1] and
\* H[N-1,0] of create_hamiltonian are 0, and no nonzero entry of the
\* assembled 3D Hamiltonian couples a grid point on one face of the grid with
\* a grid point on the opposite face along any axis of at least 3 points.
C6_NoWraparound ==
    /\ OperatorsBuilt =>
         /\ args.Nx >= 3 => Get(Hx, 0, args.Nx - 1) = Zero /\ Get(Hx, args.Nx - 1, 0) = Zero
         /\ args.Ny >= 3 => Get(Hy, 0, args.Ny - 1) = Zero /\ Get(Hy, args.Ny - 1, 0) = Zero
         /\ args.Nz >= 3 => Get(Hz, 0, args.Nz - 1) = Zero /\ Get(Hz, args.Nz - 1, 0) = Zero
    /\ pc = "solve" =>
         \A rc \in DOMAIN H.data :
            LET p == GridPoint(rc[1], args.Nx, args.Ny)
                q == GridPoint(rc[2], args.Nx, args.Ny)
            IN  /\ ~OppositeEnds(args.Nx, p[1], q[1])
                /\ ~OppositeEnds(args.Ny, p[2], q[2])
                /\ ~OppositeEnds(args.Nz, p[3], q[3])

C6_Witness ==
    /\ pc = "solve"
    /\ args.Nx >= 3 /\ args.Ny >= 3 /\ args.Nz >= 3
    /\ \E rc \in DOMAIN H.data : rc[1] # rc[2]

\* C7: the Hamiltonian passed to the eigensolver is square of dimension
\* exactly Nx*Ny*Nz, and the potential loop has visited each index
\* 0..Nx*Ny*Nz-1 of its diagonal exactly once.
C7_SquareAndVisitedOnce ==
    (pc = "solve" \/ eigsLog # <<>>) =>
        LET A == IF eigsLog # <<>> THEN eigsLog[1].A ELSE H
        IN  /\ ValidCounts
            /\ A.shape = <<GridSize, GridSize>>
            /\ DOMAIN A.data \subseteq (0..(GridSize - 1)) \X (0..(GridSize - 1))
            /\ Len(visited) = GridSize
            /\ \A p \in 0..(GridSize - 1) :
                 Cardinality({t \in DOMAIN visited : visited[t] = p}) = 1

C7_Witness ==
    /\ eigsLog # <<>>
    /\ args.Nx = 2 /\ args.Ny = 3 /\ args.Nz = 2
    /\ Len(visited) = 12

\* C8: schrodinger3D has no side effect on what the caller provides: every
\* step of a call, its return or its failure included, leaves the domain
\* bounds, the point counts and the params list as they were, and leaves the
\* vector that the potential function returned as it was returned.
C8_InputsUnchanged ==
    [][pc # "idle" => (args' = args /\ (V # <<>> => V' = V))]_vars

C8_Witness ==
    /\ pc = "idle"
    /\ ret.kind = "value"
    /\ args.params = <<1, 2, 3>>
    /\ Len(V) = GridSize
    /\ Len(visited) = GridSize

C10_NearestToE0 ==
    eigsLog # <<>> =>
        LET call == eigsLog[1]
            K == Kinetic3D(Hxy, Hz, args.Nx, args.Ny, args.Nz)
        IN  /\ Len(eigsLog) = 1
            /\ call.A = H
            /\ \A p \in 0..(GridSize - 1) :
                 Get(call.A, p, p) = RAdd(Get(K, p, p), V[p + 1])
            /\ call.k = args.neigs
            /\ call.sigma = << IF args.E0 = <<>> THEN Zero ELSE args.E0[1] >>
            /\ pc = "return" => evl = Eigenvalues(call)
            /\ ret.kind = "value" => ret.val[1] = Eigenvalues(call)

C10_Witness ==
    /\ ret.kind = "value"
    /\ args.E0 = << FromInt(3) >>
    /\ eigsLog[1].sigma = << FromInt(3) >>
    /\ args.neigs = 1

\* C11: a call that returns with findpsi False, which is the default,
\* returns the eigenvalues alone; with findpsi True it returns, in this
\* order, the eigenvalues, the eigenvectors and the grids x, y and z.
C11_ReturnByFindpsi ==
    ret.kind = "value" =>
        LET call == eigsLog[1]
        IN  IF args.findpsi \in {<<>>, <<FALSE>>}
            THEN ret.val = << Eigenvalues(call) >>
            ELSE ret.val = << Eigenvalues(call), Eigenvectors(call),
                              linspace(args.dom[1][1], args.dom[1][2], args.Nx),
                              linspace(args.dom[2][1], args.dom[2][2], args.Ny),
                              linspace(args.dom[3][1], args.dom[3][2], args.Nz) >>

C11_Witness ==
    /\ pc = "idle"
    /\ ret.kind = "value"
    /\ args.findpsi = <<TRUE>>
    /\ Len(ret.val) = 5
    /\ args.Nx = 3 /\ args.Ny = 2

\* C12: a call invokes the eigensolver at most once, never again after it
\* answered or failed; when the eigensolver fails, the call ends as a
\* failure raised at line 79 with no value in place of the eigenvalues.
C12_EigsFailurePropagates ==
    /\ Len(eigsLog) <= 1
    /\ (pc \in {"return", "idle"} /\ Started /\ ValidCounts) => Len(eigsLog) = 1
    /\ (pc = "idle" /\ eigsLog # <<>> /\ evl = NoEigen) =>
         /\ ret.kind = "raise"
         /\ ret.line = 79
         /\ ret.val = <<>>
    /\ ret.kind = "value" => (eigsLog # <<>> /\ evl = Eigenvalues(eigsLog[1]))

C12_Witness ==
    /\ pc = "idle"
    /\ Len(eigsLog) = 1
    /\ eigsLog[1].k = 1
    /\ evl = NoEigen
    /\ ret.kind = "raise"
    /\ ret.line = 79

\* The entry that the 3D finite-difference operator has between the grid
\* points p and q, each a triple of indices.
KineticEntry(p, q) ==
    IF p = q
    THEN RAdd(RAdd(RDiv(FromInt(2), RSquare(dx)), RDiv(FromInt(2), RSquare(dy))),
              RDiv(FromInt(2), RSquare(dz)))
    ELSE IF p[2] = q[2] /\ p[3] = q[3] /\ p[1] - q[1] \in {-1, 1}
    THEN RDiv(FromInt(-1), RSquare(dx))
    ELSE IF p[1] = q[1] /\ p[3] = q[3] /\ p[2] - q[2] \in {-1, 1}
    THEN RDiv(FromInt(-1), RSquare(dy))
    ELSE IF p[1] = q[1] /\ p[2] = q[2] /\ p[3] - q[3] \in {-1, 1}
    THEN RDiv(FromInt(-1), RSquare(dz))
    ELSE Zero

\* C20: before the potential is added, the 3D operator has
\* 2/dx^2 + 2/dy^2 + 2/dz^2 on its diagonal, -1/dx^2 between grid points one
\* step apart along x, -1/dy^2 along y, -1/dz^2 along z, and 0 elsewhere.
C20_KineticEntries ==
    (pc = "add_potential" /\ i = 0 /\ run = 1) =>
        /\ H.shape = <<GridSize, GridSize>>
        /\ DOMAIN H.data \subseteq (0..(GridSize - 1)) \X (0..(GridSize - 1))
        /\ \A p \in 0..(GridSize - 1), q \in 0..(GridSize - 1) :
             Get(H, p, q) = KineticEntry(GridPoint(p, args.Nx, args.Ny),
                                         GridPoint(q, args.Nx, args.Ny))

C20_Witness ==
    /\ pc = "add_potential" /\ i = 0 /\ run = 1
    /\ args.Nx = 3 /\ args.Ny = 3 /\ args.Nz = 2
    /\ dx # dy /\ dy # dz /\ dx # dz

\* The step of an axis given its bounds and its point count:
\* (max - min) / (count - 1).
AxisStep(bounds, count) == Rat(bounds[2] - bounds[1], count - 1)

\* The operator Hm of an axis has 2/d^2 on its diagonal and -1/d^2 next to
\* it, for the step d.
ScaledBy(Hm, d) ==
    /\ Get(Hm, 0, 0) = RDiv(FromInt(2), RSquare(d))
    /\ Get(Hm, 0, 1) = RDiv(FromInt(-1), RSquare(d))
    /\ Get(Hm, 1, 0) = RDiv(FromInt(-1), RSquare(d))
    /\ Get(Hm, 1, 1) = RDiv(FromInt(2), RSquare(d))

\* C21: each axis operator is scaled by the inverse square of the step of
\* its own axis: Hx by dx = (xmax-xmin)/(Nx-1), Hy by dy = (ymax-ymin)/(Ny-1),
\* Hz by dz = (zmax-zmin)/(Nz-1), also when the three steps differ.
C21_OwnAxisStep ==
    OperatorsBuilt =>
        /\ dx = AxisStep(args.dom[1], args.Nx)
        /\ dy = AxisStep(args.dom[2], args.Ny)
        /\ dz = AxisStep(args.dom[3], args.Nz)
        /\ ScaledBy(Hx, AxisStep(args.dom[1], args.Nx))
        /\ ScaledBy(Hy, AxisStep(args.dom[2], args.Ny))
        /\ ScaledBy(Hz, AxisStep(args.dom[3], args.Nz))

C21_Witness ==
    /\ pc = "kron"
    /\ dx = One /\ dy = Rat(1, 2) /\ dz = FromInt(2)
    /\ Get(Hy, 0, 0) = FromInt(8)
    /\ Get(Hz, 0, 0) = Rat(1, 2)

\* C22: adding the potential changes only diagonal entries: after the loop
\* H[p,p] is the kinetic diagonal entry plus V[p], V[p] added once, and every
\* off-diagonal entry of H is that of the kinetic operator.
C22_OnlyDiagonalChanges ==
    (pc = "solve" /\ run = 1) =>
        LET K == Kinetic3D(Hxy, Hz, args.Nx, args.Ny, args.Nz)
        IN  /\ H.shape = K.shape
            /\ \A p \in 0..(GridSize - 1) :
                 /\ Get(H, p, p) = RAdd(Get(K, p, p), V[p + 1])
                 /\ Cardinality({q \in DOMAIN visited : visited[q] = p}) = 1
            /\ \A rc \in DOMAIN H.data \cup DOMAIN K.data :
                 rc[1] # rc[2] => Get(H, rc[1], rc[2]) = Get(K, rc[1], rc[2])

C22_Witness ==
    /\ pc = "solve" /\ run = 1
    /\ args.params = <<1, 2, 3>>
    /\ args.Nx = 2 /\ args.Ny = 3 /\ args.Nz = 3
    /\ \E p \in 1..Len(V) : V[p] # Zero
    /\ \E rc \in DOMAIN H.data : rc[1] # rc[2]

\* C23: for all Nx, Ny, Nz >= 2 the Hamiltonian that schrodinger3D
\* assembles, the kinetic operator plus the potential on its diagonal, is
\* symmetric: H[p,q] = H[q,p] for all p, q.
C23_Symmetric ==
    (pc = "solve" /\ run = 1) =>
        \A rc \in DOMAIN H.data : Get(H, rc[2], rc[1]) = H.data[rc]

C23_Witness ==
    /\ pc = "solve" /\ run = 1
    /\ args.Nx = 3 /\ args.Ny = 2 /\ args.Nz = 3
    /\ dx # dy /\ dy # dz
    /\ \E rc \in DOMAIN H.data : rc[1] < rc[2]
    /\ \E p \in 1..Len(V) : V[p] # V[1]

\* ------------------------------------------ Markov Chain Monte Carlo.ipynb

\* A flip probability is exp(e) for a rational e, and the model holds e.  A
\* sample of np.random.random(), a float in [0, 1), is 0 or exp(log) for a
\* rational log < 0.  exp is increasing, so rand < pflip[row, col] is decided
\* exactly on the exponents.
RandomSamples ==
    { [zero |-> TRUE, log |-> Zero],
      [zero |-> FALSE, log |-> FromInt(-1)],
      [zero |-> FALSE, log |-> FromInt(-8)] }

\* Variant: the comparison of line 125 not strict.
SampleBelow_or_equal(rand, e) == rand.zero \/ RLess(rand.log, e) \/ rand.log = e

\* Line 125: rand < pflip[pfliprow, pflipcol], the entry being exp(e).
SampleBelow(rand, e) == rand.zero \/ RLess(rand.log, e)

\* Lines 85-86: x = np.mod(r, Nx); y = r // Nx
SiteX(r, Nx) == r % Nx
SiteY(r, Nx) == r \div Nx

\* Lines 93-96: the indices of spin read as s1, s2, s3, s4.
NeighbourIndices(r, Nx, Ny) ==
    LET sx == SiteX(r, Nx)
        sy == SiteY(r, Nx)
    IN  << ((sx + 1) % Nx) + sy * Ny,
           sx + ((sy + 1) % Ny) * Nx,
           ((sx - 1 + Nx) % Nx) + sy * Nx,
           sx + ((sy - 1 + Ny) % Ny) * Nx >>

\* Lines 104-107: pfliprow, <<>> while no branch has assigned it.
PflipRow(s0) ==
    IF s0 = 1 THEN <<0>>
    ELSE IF s0 = -1 THEN <<1>>
    ELSE <<>>

\* Variant: the branch of a neighbour sum of 0 left out.
PflipCol_without_zero(neighbours) ==
    IF neighbours = -4 THEN <<0>>
    ELSE IF neighbours = -2 THEN <<1>>
    ELSE IF neighbours = 2 THEN <<3>>
    ELSE IF neighbours = 4 THEN <<4>>
    ELSE <<>>

\* Lines 110-119: pflipcol, <<>> while no branch has assigned it.
PflipCol(neighbours) ==
    IF neighbours = -4 THEN <<0>>
    ELSE IF neighbours = -2 THEN <<1>>
    ELSE IF neighbours = 0 THEN <<2>>
    ELSE IF neighbours = 2 THEN <<3>>
    ELSE IF neighbours = 4 THEN <<4>>
    ELSE <<>>

\* What a call of ising2D leaves: the exception and its line if it raised,
\* the lattice, the indices it computed for s1..s4, the sample if drawn.
Ising2DResult(exc, line, lattice, idx, rand) ==
    [exc |-> exc, line |-> line, spin |-> lattice, idx |-> idx, rand |-> rand]

\* Variant: the neighbour to the right flipped together with the site.
ising2D_flips_right_too(Nx, Ny, lattice, table, r, rand) ==
    LET idx == NeighbourIndices(r, Nx, Ny)
        right == ((SiteX(r, Nx) + 1) % Nx) + SiteY(r, Nx) * Nx
    IN  Ising2DResult("", 0,
                      [q \in 1..Len(lattice) |->
                          IF q \in {r + 1, right + 1} THEN -lattice[q] ELSE lattice[q]],
                      idx, <<rand>>)

\* Lines 80-128: ising2D(Nx, Ny, spin, pflip) on a lattice, for the site r of
\* line 83 and the sample rand of line 124.  Reading spin[q] for q >= N
\* raises IndexError; no index is negative.
ising2D(Nx, Ny, lattice, table, r, rand) ==
    LET N == Nx * Ny
        idx == NeighbourIndices(r, Nx, Ny)
        bad == {q \in 1..4 : idx[q] >= N}
    IN  IF bad # {}
        THEN Ising2DResult("IndexError", 92 + (CHOOSE q \in bad : \A q2 \in bad : q <= q2),
                           lattice, idx, <<>>)
        ELSE
        LET s0 == lattice[r + 1]
            neighbours == lattice[idx[1] + 1] + lattice[idx[2] + 1]
                            + lattice[idx[3] + 1] + lattice[idx[4] + 1]
            pfliprow == PflipRow(s0)
            pflipcol == PflipCol(neighbours)
        IN  IF pfliprow = <<>> \/ pflipcol = <<>>
            THEN Ising2DResult("UnboundLocalError", 125, lattice, idx, <<rand>>)
            ELSE IF SampleBelow(rand, table[pfliprow[1]][pflipcol[1]])
            THEN Ising2DResult("", 0, [lattice EXCEPT ![r + 1] = -s0], idx, <<rand>>)
            ELSE Ising2DResult("", 0, lattice, idx, <<rand>>)

\* Line 193: B = 1 / (k * T[t]) with k = 1 of line 185.
Beta(Tt) == RDiv(One, RMul(FromInt(1), Tt))

\* Line 201: np.exp(2 * (H + J * Sj) * Si * -B), held as its exponent.
FlipWeight(Hf, J, B, Si, Sj) ==
    RMul(RMul(RMul(FromInt(2), RAdd(Hf, RMul(J, FromInt(Sj)))), FromInt(Si)),
         RSub(Zero, B))

\* Lines 200-202: for j in range(5): pflip[i, j] = ...; Sj = Sj + 2, on the
\* entries assigned so far and the running Si and Sj; an entry not yet
\* assigned is the 0.0 of np.zeros([2, 5]).
RECURSIVE FlipLoopJ(_, _, _, _, _, _, _, _)
FlipLoopJ(Hf, J, B, ii, jj, table, Si, Sj) ==
    IF jj >= 5 THEN [table |-> table, Si |-> Si, Sj |-> Sj]
    ELSE FlipLoopJ(Hf, J, B, ii, jj + 1,
                   (<<ii, jj>> :> FlipWeight(Hf, J, B, Si, Sj)) @@ table, Si, Sj + 2)

\* Variant: Sj not set back to -4 after a row.
RECURSIVE FlipLoopI_keeps_Sj(_, _, _, _, _, _, _)
FlipLoopI_keeps_Sj(Hf, J, B, ii, table, Si, Sj) ==
    IF ii >= 2 THEN table
    ELSE LET row == FlipLoopJ(Hf, J, B, ii, 0, table, Si, Sj)
         IN  FlipLoopI_keeps_Sj(Hf, J, B, ii + 1, row.table, -1, row.Sj)

\* Lines 199-204: for i in range(2): the row, then Si = -1; Sj = -4.
RECURSIVE FlipLoopI(_, _, _, _, _, _, _)
FlipLoopI(Hf, J, B, ii, table, Si, Sj) ==
    IF ii >= 2 THEN table
    ELSE LET row == FlipLoopJ(Hf, J, B, ii, 0, table, Si, Sj)
         IN  FlipLoopI(Hf, J, B, ii + 1, row.table, -1, -4)

\* Lines 194-204: the flip table of a temperature, pflip[i][j], built with
\* Si = 1 and Sj = -4 at the start.
FlipTable(Hf, J, B) ==
    LET built == FlipLoopI(Hf, J, B, 0, <<>>, 1, -4)
    IN  [ii \in 0..1 |-> [jj \in 0..4 |-> built[<<ii, jj>>]]]

\* np.ones(N) and np.sum(spin)
ones(N) == [q \in 1..N |-> 1]
RECURSIVE SumTo(_, _)
SumTo(v, q) == IF q = 0 THEN 0 ELSE v[q] + SumTo(v, q - 1)
Sum(v) == SumTo(v, Len(v))

NoIsing2DCall == <<>>

\* The record of a call of ising2D: the site, the lattice before, the result.
Ising2DCall(r, before, res) == << [r |-> r, before |-> before, res |-> res] >>

\* The lattices of N spins, each 1 or -1, with at most MaxDown spins down.
Lattices(N) ==
    {v \in [1..N -> {1, -1}] : Cardinality({q \in 1..N : v[q] = -1}) <= MaxDown}

\* The flip tables ising2D is given: those of H = 0, J = 1, T = 1 and of
\* H = 1, J = 1, T = 2.
TableVals ==
    { FlipTable(Zero, One, Beta(One)), FlipTable(One, One, Beta(FromInt(2))) }

\* One call of ising2D(Nx, Ny, spin, pflip) on a lattice of Nx * Ny spins.
Ising2DInit ==
    /\ SchrodingerAtRest /\ DftAtRest /\ GpAtRest /\ DmsAtRest /\ ShoAtRest
    /\ ipc = "call"
    /\ iargs \in [Nx : 1..MaxSide, Ny : 1..MaxSide]
    /\ spin \in Lattices(iargs.Nx * iargs.Ny)
    /\ pflip \in TableVals
    /\ temp = 0
    /\ iter = 0
    /\ M = <<>>
    /\ last = NoIsing2DCall
    /\ trace = <<>>
    /\ iret = NoRet

\* Lines 65-128: spin = ising2D(Nx, Ny, spin, pflip), returning the lattice
\* or raising.
Ising2DOnce ==
    /\ ipc = "call"
    /\ \E r \in 0..(iargs.Nx * iargs.Ny - 1), rand \in RandomSamples :
         LET res == ising2D(iargs.Nx, iargs.Ny, spin, pflip, r, rand)
         IN  /\ last' = Ising2DCall(r, spin, res)
             /\ spin' = res.spin
             /\ iret' = IF res.exc # "" THEN Raised(res.exc, res.line)
                        ELSE Returned(res.spin)
    /\ ipc' = "done"
    /\ UNCHANGED <<iargs, pflip, temp, iter, M, trace>>
    /\ UNCHANGED notIsing

Ising2DNext == Ising2DOnce

SpecIsing2D == Ising2DInit /\ [][Ising2DNext]_vars

\* The arguments given to ising_metropolis_2D.
TVals == { << One >>, << FromInt(2), One >> }
FieldVals == { Zero, One }
DriverSides == 1..2
IsingInputs ==
    [J : {One}, H : FieldVals, T : TVals, Nx : DriverSides, Ny : DriverSides,
     steps : 1..MaxSteps, warmup_steps : 0..MaxWarmup]

IsingInit ==
    /\ SchrodingerAtRest /\ DftAtRest /\ GpAtRest /\ DmsAtRest /\ ShoAtRest
    /\ ipc = "idle"
    /\ iargs \in IsingInputs
    /\ temp = 0
    /\ spin = <<>>
    /\ pflip = <<>>
    /\ iter = 0
    /\ M = <<>>
    /\ last = NoIsing2DCall
    /\ trace = <<>>
    /\ iret = NoRet

\* The trace of the temperature being run, with events added.
Traced(events) == [trace EXCEPT ![Len(trace)] = @ \o events]

\* Lines 184-186: N = Nx * Ny; k = 1; M = np.zeros(len(T))
MetropolisCall ==
    /\ ipc = "idle"
    /\ M' = [q \in 1..Len(iargs.T) |-> Zero]
    /\ temp' = 0
    /\ ipc' = "temperature"
    /\ UNCHANGED <<iargs, spin, pflip, iter, last, trace, iret>>
    /\ UNCHANGED notIsing

\* Lines 188-204: the next temperature starts from all spins up and its own
\* flip table.
NextTemperature ==
    /\ ipc = "temperature"
    /\ temp < Len(iargs.T)
    /\ spin' = ones(iargs.Nx * iargs.Ny)
    /\ pflip' = FlipTable(iargs.H, iargs.J, Beta(iargs.T[temp + 1]))
    /\ iter' = 0
    /\ last' = NoIsing2DCall
    /\ trace' = Append(trace, <<"reset">>)
    /\ ipc' = "warmup"
    /\ UNCHANGED <<iargs, temp, M, iret>>
    /\ UNCHANGED notIsing

\* Lines 207-208: one warmup iteration, spin = ising2D(Nx, Ny, spin, pflip),
\* or the end of the warmup loop.
Warmup ==
    /\ ipc = "warmup"
    /\ IF iter < iargs.warmup_steps
       THEN \E r \in 0..(iargs.Nx * iargs.Ny - 1), rand \in RandomSamples :
              LET res == ising2D(iargs.Nx, iargs.Ny, spin, pflip, r, rand)
              IN  /\ last' = Ising2DCall(r, spin, res)
                  /\ spin' = res.spin
                  /\ IF res.exc # ""
                     THEN /\ iret' = Raised(res.exc, res.line)
                          /\ ipc' = "done"
                          /\ UNCHANGED <<iter, trace>>
                     ELSE /\ iter' = iter + 1
                          /\ trace' = Traced(<<"step">>)
                          /\ UNCHANGED <<ipc, iret>>
       ELSE /\ ipc' = "measure"
            /\ iter' = 0
            /\ UNCHANGED <<spin, last, trace, iret>>
    /\ UNCHANGED <<iargs, temp, pflip, M>>
    /\ UNCHANGED notIsing

\* Lines 211-218: one iteration of the measurement loop, ising2D and then
\* M[t] = M[t] + np.sum(spin) / N, or the end of the loop and
\* M[t] = np.abs(M[t] / steps).
Measure ==
    /\ ipc = "measure"
    /\ IF iter < iargs.steps
       THEN \E r \in 0..(iargs.Nx * iargs.Ny - 1), rand \in RandomSamples :
              LET res == ising2D(iargs.Nx, iargs.Ny, spin, pflip, r, rand)
              IN  /\ last' = Ising2DCall(r, spin, res)
                  /\ spin' = res.spin
                  /\ IF res.exc # ""
                     THEN /\ iret' = Raised(res.exc, res.line)
                          /\ ipc' = "done"
                          /\ UNCHANGED <<iter, trace, M, temp>>
                     ELSE /\ M' = [M EXCEPT ![temp + 1] =
                                      RAdd(@, Rat(Sum(spin'), iargs.Nx * iargs.Ny))]
                          /\ iter' = iter + 1
                          /\ trace' = Traced(<<"step", "measure">>)
                          /\ UNCHANGED <<ipc, iret, temp>>
       ELSE /\ M' = [M EXCEPT ![temp + 1] = RAbs(RDiv(@, FromInt(iargs.steps)))]
            /\ temp' = temp + 1
            /\ ipc' = "temperature"
            /\ UNCHANGED <<spin, last, trace, iret, iter>>
    /\ UNCHANGED <<iargs, pflip>>
    /\ UNCHANGED notIsing

\* Line 220: return [T, M]
MetropolisReturn ==
    /\ ipc = "temperature"
    /\ temp = Len(iargs.T)
    /\ iret' = Returned(<<iargs.T, M>>)
    /\ ipc' = "done"
    /\ UNCHANGED <<iargs, temp, spin, pflip, iter, M, last, trace>>
    /\ UNCHANGED notIsing

IsingNext ==
    \/ MetropolisCall
    \/ NextTemperature
    \/ Warmup
    \/ Measure
    \/ MetropolisReturn

SpecIsing == IsingInit /\ [][IsingNext]_vars

\* ---------------------------------------------------------- claims, Ising

\* The folded index of the lattice site (sx, sy): index = x + y * Nx.
Folded(sx, sy, Nx) == sx + sy * Nx

\* The right, bottom, left and top neighbours of site r, with periodic wrap.
NearestNeighbours(r, Nx, Ny) ==
    LET sx == r % Nx
        sy == r \div Nx
    IN  << Folded((sx + 1) % Nx, sy, Nx),
           Folded(sx, (sy + 1) % Ny, Nx),
           Folded((sx - 1 + Nx) % Nx, sy, Nx),
           Folded(sx, (sy - 1 + Ny) % Ny, Nx) >>

\* ising2D has been called.
Called == last # NoIsing2DCall

\* On a square lattice the spins read as s1..s4 are the nearest neighbours.
NeighboursOnSquareLattice ==
    (Called /\ iargs.Nx = iargs.Ny) =>
        /\ last[1].res.idx = NearestNeighbours(last[1].r, iargs.Nx, iargs.Ny)
        /\ last[1].res.exc = ""

\* C14: for every lattice size Nx, Ny >= 1, Nx # Ny included, and every site
\* r, the spins that ising2D reads as s1, s2, s3, s4 are the right, bottom,
\* left and top neighbours of r under index = x + y * Nx with periodic wrap,
\* and the four indices lie in 0..Nx*Ny-1.
C14_NearestNeighbours ==
    Called =>
        /\ last[1].res.idx = NearestNeighbours(last[1].r, iargs.Nx, iargs.Ny)
        /\ \A q \in 1..4 : last[1].res.idx[q] \in 0..(iargs.Nx * iargs.Ny - 1)

\* C15: one call of ising2D changes at most one entry of the lattice, the
\* one of the chosen site r; every other entry is as before the call, and
\* the array the call returns is the lattice as the call left it.
C15_OneSiteChanges ==
    Called =>
        LET c == last[1]
        IN  /\ Len(spin) = Len(c.before)
            /\ \A q \in 1..Len(spin) : q # c.r + 1 => spin[q] = c.before[q]
            /\ spin[c.r + 1] \in {c.before[c.r + 1], -c.before[c.r + 1]}
            /\ iret.kind = "value" => iret.val = spin
            /\ iret.kind = "raise" => spin = c.before

C15_Witness ==
    /\ Called
    /\ iargs.Nx = 3 /\ iargs.Ny = 3
    /\ iret.kind = "value"
    /\ spin # last[1].before
    /\ \E q \in 1..9 : last[1].before[q] = -1

\* C16: in a call of ising2D that draws its sample, the chosen spin s0 is
\* negated if and only if the sample is strictly smaller than
\* pflip[row, col], with row = 0 for s0 = 1, row = 1 for s0 = -1 and
\* col = (s1 + s2 + s3 + s4 + 4) / 2; otherwise the lattice is left as it was.
C16_FlipIffSampleBelow ==
    (Called /\ last[1].res.rand # <<>>) =>
        LET c == last[1]
            s0 == c.before[c.r + 1]
            s1 == c.before[c.res.idx[1] + 1]
            s2 == c.before[c.res.idx[2] + 1]
            s3 == c.before[c.res.idx[3] + 1]
            s4 == c.before[c.res.idx[4] + 1]
            row == IF s0 = 1 THEN 0 ELSE 1
            col == (s1 + s2 + s3 + s4 + 4) \div 2
            rand == c.res.rand[1]
            below == rand.zero \/ RLess(rand.log, pflip[row][col])
        IN  /\ (spin[c.r + 1] = -s0) <=> below
            /\ ~below => spin = c.before

\* A call on a spin that is down, with a sample that is not 0 and equals the
\* flip probability, which does not flip; the lattice of the bound allows it.
C16_Witness ==
    /\ Called
    /\ last[1].res.rand # <<>>
    /\ ~last[1].res.rand[1].zero
    /\ last[1].before[last[1].r + 1] = -1
    /\ \E ii \in 0..1, jj \in 0..4 : pflip[ii][jj] = last[1].res.rand[1].log
    /\ spin = last[1].before
    /\ iret.kind = "value"

\* What runs for one temperature: the reset, warmup_steps iterations, then
\* steps iterations each followed by its measurement.
ExpectedTrace(w, st) ==
    <<"reset">> \o [q \in 1..w |-> "step"]
                \o [q \in 1..(2 * st) |-> IF q % 2 = 1 THEN "step" ELSE "measure"]

IsPrefix(a, b) == Len(a) <= Len(b) /\ \A q \in 1..Len(a) : a[q] = b[q]

\* While ising_metropolis_2D runs, what has run for each temperature started
\* is a prefix of the schedule, complete for the temperatures left behind;
\* a temperature starts from all spins up and a zero M[t].
ScheduleWhileRunning ==
    ipc \notin {"idle", "off"} =>
        /\ \A q \in 1..Len(trace) :
             /\ IsPrefix(trace[q], ExpectedTrace(iargs.warmup_steps, iargs.steps))
             /\ q <= temp => trace[q] = ExpectedTrace(iargs.warmup_steps, iargs.steps)
        /\ Len(trace) \in {temp, temp + 1}
        /\ (ipc \in {"warmup", "measure"} /\ trace[temp + 1] = <<"reset">>) =>
             /\ spin = ones(iargs.Nx * iargs.Ny)
             /\ M[temp + 1] = Zero
        /\ ipc = "warmup" => M[temp + 1] = Zero
        /\ \A q \in 1..Len(M) : q > temp + 1 => M[q] = Zero

\* C17: in a call of ising_metropolis_2D, for each temperature T[t] the
\* lattice is reset to all spins up, then exactly warmup_steps iterations run
\* without measurement, then exactly steps iterations run, each followed by
\* one accumulation into M[t]; nothing carries over between temperatures.
C17_Schedule ==
    /\ ScheduleWhileRunning
    /\ ipc = "done" =>
         /\ Len(trace) = Len(iargs.T)
         /\ \A q \in 1..Len(trace) :
              trace[q] = ExpectedTrace(iargs.warmup_steps, iargs.steps)

\* The flip table of the temperature being run has been built.
TableBuilt == ipc \in {"warmup", "measure"}

\* exp's argument for a spin Si with neighbour sum Sj: -2 Si (H + J Sj) / T.
WeightOf(Si, Sj) ==
    RDiv(RMul(FromInt(-2 * Si), RAdd(iargs.H, RMul(iargs.J, FromInt(Sj)))),
         iargs.T[temp + 1])

\* C24: for each of the 10 configurations, Si in {1, -1} and Sj in
\* {-4, -2, 0, 2, 4}, the row and the column under which ising2D looks the
\* configuration up are assigned, they are i = 0 for Si = 1, i = 1 for
\* Si = -1 and j = (Sj + 4) / 2, and the entry the driver stored there is
\* the weight of that Si and that Sj.
C24_TableMatchesLookup ==
    TableBuilt =>
        \A Si \in {1, -1}, Sj \in {-4, -2, 0, 2, 4} :
            /\ PflipRow(Si) = << IF Si = 1 THEN 0 ELSE 1 >>
            /\ PflipCol(Sj) = << (Sj + 4) \div 2 >>
            /\ pflip[PflipRow(Si)[1]][PflipCol(Sj)[1]] = WeightOf(Si, Sj)

\* The second temperature of a run in a field H = 1, after a call that looked
\* the table up: the rows differ from their mirror images.
C24_Witness ==
    /\ ipc = "measure"
    /\ iargs.H = One
    /\ temp = 1
    /\ pflip[0][0] = FromInt(6)
    /\ pflip[1][0] = FromInt(-6)
    /\ pflip[1][4] = FromInt(10)
    /\ Called
    /\ last[1].res.exc = ""

\* The sum of the four spins a call read as s1..s4.
NeighbourSum(c) ==
    c.before[c.res.idx[1] + 1] + c.before[c.res.idx[2] + 1]
        + c.before[c.res.idx[3] + 1] + c.before[c.res.idx[4] + 1]

\* C26: every entry of the lattice is 1 or -1 before and after a call of
\* ising2D; in a call that read its four neighbours their sum is one of
\* -4, -2, 0, 2, 4, so that pfliprow and pflipcol are both assigned when
\* pflip[pfliprow, pflipcol] is read and the sample is drawn.
C26_SpinsStayPlusMinusOne ==
    /\ \A q \in 1..Len(spin) : spin[q] \in {1, -1}
    /\ (Called /\ last[1].res.exc # "IndexError") =>
          /\ last[1].before[last[1].r + 1] \in {1, -1}
          /\ NeighbourSum(last[1]) \in {-4, -2, 0, 2, 4}
          /\ last[1].res.exc = ""
          /\ last[1].res.rand # <<>>

\* A call on a spin that is down with neighbour sum -2, which flips it.
C26_Witness ==
    /\ Called
    /\ last[1].res.exc = ""
    /\ last[1].before[last[1].r + 1] = -1
    /\ NeighbourSum(last[1]) = -2
    /\ spin[last[1].r + 1] = 1

\* -------------------------------------- Fourier Transforms in Python.ipynb

\* A complex number with exact rational parts.
Complex(re, im) == [re |-> re, im |-> im]
CZero == Complex(Zero, Zero)
CAdd(a, b) == Complex(RAdd(a.re, b.re), RAdd(a.im, b.im))
CMul(a, b) ==
    Complex(RSub(RMul(a.re, b.re), RMul(a.im, b.im)),
            RAdd(RMul(a.re, b.im), RMul(a.im, b.re)))
CDivInt(a, N) == Complex(RDiv(a.re, FromInt(N)), RDiv(a.im, FromInt(N)))

\* The lengths for which every factor exp(+-1j * 2 * pi * k * n / N) is one
\* of 1, i, -1, -i.
Lengths == {1, 2, 4}

\* i to the power q.
UnitPower(q) ==
    IF q % 4 = 0 THEN Complex(One, Zero)
    ELSE IF q % 4 = 1 THEN Complex(Zero, One)
    ELSE IF q % 4 = 2 THEN Complex(FromInt(-1), Zero)
    ELSE Complex(Zero, FromInt(-1))

\* np.exp(sign * 1j * 2 * np.pi * k * n / N) for N in Lengths: a quarter
\* turn is 2 * pi / 4, so the factor is i to the power sign * (4 / N) * k * n.
Twiddle(sign, k, nn, N) == UnitPower(sign * (4 \div N) * k * nn)

\* np.dot(X, np.exp(sign * 1j * 2 * np.pi * K * n / N)) with
\* K = np.arange(0, N, 1): the sum over the first cnt entries of X.
RECURSIVE DotTo(_, _, _, _)
DotTo(X, sign, nn, cnt) ==
    IF cnt = 0 THEN CZero
    ELSE CAdd(DotTo(X, sign, nn, cnt - 1),
              CMul(X[cnt], Twiddle(sign, cnt - 1, nn, Len(X))))

\* Lines 42-60: dft(X)
dft(X) == [q \in 1..Len(X) |-> DotTo(X, 1, q - 1, Len(X))]

\* Variant: the inverse without the division by N.
idft_unscaled(X) == [q \in 1..Len(X) |-> DotTo(X, -1, q - 1, Len(X))]

\* Lines 62-82: idft(X), x / N
idft(X) == [q \in 1..Len(X) |-> CDivInt(DotTo(X, -1, q - 1, Len(X)), Len(X))]

\* The signals: integer entries, as complex numbers with no imaginary part.
Entries == {Complex(FromInt(a), Zero) : a \in (-MaxEntry)..MaxEntry}
Signals == UNION {[1..N -> Entries] : N \in Lengths}

DftInit ==
    /\ SchrodingerAtRest /\ IsingAtRest /\ GpAtRest /\ DmsAtRest /\ ShoAtRest
    /\ fpc = "signal"
    /\ fX \in Signals
    /\ fx = <<>>
    /\ fback = <<>>

\* x = dft(X)
ApplyDft ==
    /\ fpc = "signal"
    /\ fx' = dft(fX)
    /\ fpc' = "transformed"
    /\ UNCHANGED <<fX, fback>>
    /\ UNCHANGED notDft

\* idft(x)
ApplyIdft ==
    /\ fpc = "transformed"
    /\ fback' = idft(fx)
    /\ fpc' = "inverted"
    /\ UNCHANGED <<fX, fx>>
    /\ UNCHANGED notDft

DftNext ==
    \/ ApplyDft
    \/ ApplyIdft

SpecDft == DftInit /\ [][DftNext]_vars

\* C18: idft is the inverse of dft: for every signal X of length 1, 2 or 4
\* with bounded integer entries, idft(dft(X)) = X.
C18_IdftInvertsDft ==
    fpc = "inverted" => fback = fX

C18_Witness ==
    /\ fpc = "inverted"
    /\ Len(fX) = 4
    /\ fX[2] # fX[4]
    /\ \E q \in 1..4 : fx[q].im # Zero
    /\ fback = fX

\* ------------------------- Gaussian Process Regression in Python.ipynb

\* ||a - b||**2 for two rows of features.
RECURSIVE SqDistTo(_, _, _)
SqDistTo(a, b, cnt) ==
    IF cnt = 0 THEN Zero
    ELSE RAdd(SqDistTo(a, b, cnt - 1), RSquare(RSub(a[cnt], b[cnt])))

\* Lines 124-126: RBF_kernel(x, y, l) = exp(-||x - y||**2 / (2 * l**2)); the
\* model holds the exponent of the value.
RBF_kernel(a, b, l) ==
    RSub(Zero, RDiv(SqDistTo(a, b, Len(a)), RMul(FromInt(2), RSquare(l))))

\* Lines 128-133: make_RBF_kernel(X, l), a list of rows.
make_RBF_kernel(Xs, l) ==
    [p \in 1..Len(Xs) |-> [q \in 1..Len(Xs) |-> RBF_kernel(Xs[p], Xs[q], l)]]

\* v[:m] for m >= 0
Take(v, m) == [q \in 1..(IF m < Len(v) THEN m ELSE Len(v)) |-> v[q]]

\* np.linalg.inv raises LinAlgError on a singular matrix; a kernel matrix is
\* singular exactly when two of its rows are equal (two equal data rows).
Singular(Km) == \E p \in 1..Len(Km), q \in 1..Len(Km) : p < q /\ Km[p] = Km[q]

\* np.dot(np.dot(k, np.linalg.inv(K)), y) for operands that fit.
MeanValue(kv, Km, yv) == [k |-> kv, K |-> Km, y |-> yv]

\* Lines 151-156: gaussian_process_predict_mean(X_data, y_data, X_pred), run
\* in a notebook whose global X is globalX: <<>> when no cell has assigned X,
\* otherwise <<the array>>.  Line 154 slices by len(X), not len(X_data).
gaussian_process_predict_mean(X_data, y_data, X_pred, globalX) ==
    LET rbf_kernel == make_RBF_kernel(Append(X_data, X_pred), One)
        Km == [p \in 1..Len(X_data) |-> Take(rbf_kernel[p], Len(X_data))]
    IN  IF globalX = <<>> THEN Raised("NameError", 154)
        ELSE
        LET kv == [p \in DOMAIN Take(rbf_kernel, Len(globalX[1])) |->
                      rbf_kernel[p][Len(rbf_kernel)]]
        IN  IF Singular(Km) THEN Raised("LinAlgError", 155)
            ELSE IF Len(kv) # Len(Km) THEN Raised("ValueError", 155)
            ELSE IF Len(y_data) # Len(Km) THEN Raised("ValueError", 155)
            ELSE Returned(MeanValue(kv, Km, y_data))

\* Arrays of 1..MaxRows rows of one feature; targets of the same length.
FeatureVals == {Zero, One, FromInt(2)}
TargetVals == {One, FromInt(3)}
Arrays == UNION {[1..rows -> {<<f>> : f \in FeatureVals}] : rows \in 1..MaxRows}
GpInputs ==
    {a \in [X_data : Arrays,
            y_data : UNION {[1..rows -> TargetVals] : rows \in 1..MaxRows},
            X_pred : {<<Rat(1, 2)>>}] : Len(a.X_data) = Len(a.y_data)}

GpInit ==
    /\ SchrodingerAtRest /\ IsingAtRest /\ DftAtRest /\ DmsAtRest /\ ShoAtRest
    /\ gpc = "start"
    /\ gX = <<>>
    /\ gargs \in GpInputs
    /\ gret = NoRet

\* Line 185: a cell of the notebook assigns the global X.
AssignX ==
    /\ gpc = "start"
    /\ \E a \in Arrays : gX' = <<a>>
    /\ gpc' = "assigned"
    /\ UNCHANGED <<gargs, gret>>
    /\ UNCHANGED notGp

\* Line 191: mean_pred = gaussian_process_predict_mean(X_data, y_data, X_pred)
Predict ==
    /\ gpc \in {"start", "assigned"}
    /\ gret' = gaussian_process_predict_mean(gargs.X_data, gargs.y_data, gargs.X_pred, gX)
    /\ gpc' = "done"
    /\ UNCHANGED <<gX, gargs>>
    /\ UNCHANGED notGp

GpNext ==
    \/ AssignX
    \/ Predict

SpecGp == GpInit /\ [][GpNext]_vars

\* mu = k^T K^-1 y_data, with K the kernel matrix of the rows of X_data and
\* k[n] = kernel(X_data[n], X_pred), one entry per row of X_data.
ExpectedMean(X_data, y_data, X_pred) ==
    LET Km == [p \in 1..Len(X_data) |->
                 [q \in 1..Len(X_data) |-> RBF_kernel(X_data[p], X_data[q], One)]]
        kv == [p \in 1..Len(X_data) |-> RBF_kernel(X_data[p], X_pred, One)]
    IN  IF \E p \in 1..Len(X_data), q \in 1..Len(X_data) : p < q /\ X_data[p] = X_data[q]
        THEN Raised("LinAlgError", 155)
        ELSE Returned(MeanValue(kv, Km, y_data))

\* When the global X has as many rows as X_data, the call gives the mean of
\* its arguments.
MeanWhenGlobalFits ==
    (gpc = "done" /\ gX # <<>> /\ Len(gX[1]) = Len(gargs.X_data)) =>
        gret = ExpectedMean(gargs.X_data, gargs.y_data, gargs.X_pred)

\* C19: gaussian_process_predict_mean(X_data, y_data, X_pred) computes
\* mu = k^T K^-1 y_data with one entry of k per row of X_data; what it gives
\* is determined by its three arguments, not by a variable outside it.
C19_MeanOfArguments ==
    gpc = "done" => gret = ExpectedMean(gargs.X_data, gargs.y_data, gargs.X_pred)

\* ------------------------------------------------ geocoding notebook: dd_2_dms

\* The largest whole number of degrees among the inputs.
MaxDegs == 2

\* a * k for a rational a and an integer k > 0, cancelling before multiplying.
TimesInt(a, k) ==
    LET g == GCD(k, a[2])
    IN  <<a[1] * (k \div g), a[2] \div g>>

\* np.divmod(a, 1): the floor of a and what is left of it, in 0 <= . < 1.
divmod1(a) == << FromInt(a[1] \div a[2]), <<a[1] % a[2], a[2]>> >>

\* The multiple of 1/scale nearest to a, the even one of two equally near.
RoundHalfEven(a, scale) ==
    LET whole == a[1] \div a[2]
        scaled == TimesInt(<<a[1] % a[2], a[2]>>, scale)
        q == scaled[1] \div scaled[2]
        rest == scaled[1] % scaled[2]
        up == 2 * rest > scaled[2] \/ (2 * rest = scaled[2] /\ q % 2 = 1)
    IN  Rat(whole * scale + q + (IF up THEN 1 ELSE 0), scale)

\* np.round(a, 4)
round4(a) == RoundHalfEven(a, 10000)

\* Lines 130-146: dd_2_dms(dd), returning (degs, mins, secs).
dd_2_dms(a) ==
    LET sign == IF RLess(a, Zero) THEN 0 ELSE 1
        pos == IF RLess(a, Zero) THEN RAbs(a) ELSE a
        first == divmod1(pos)
        mins_secs == first[2]
        second == divmod1(TimesInt(mins_secs, 60))
        mins == second[1]
        secs == second[2]
        degs == IF sign = 0 THEN <<-first[1][1], first[1][2]>> ELSE first[1]
    IN  << degs, mins, round4(TimesInt(secs, 60)) >>

\* The inputs: decimal degrees that are a whole number of ticks, a tick
\* being 1/40000 of a second of arc, of either sign.
TicksPerMinute == 60 * 40000
TicksPerDegree == 60 * TicksPerMinute
MinuteVals == {0, 1, 30, 59}
TickVals == {0, 1, 3, 40000, 11 * 40000 + 23652, TicksPerMinute - 3, TicksPerMinute - 1}
DmsInputs ==
    { Rat(sg * (d * TicksPerDegree + m * TicksPerMinute + t), TicksPerDegree) :
        sg \in {1, -1}, d \in 0..MaxDegs, m \in MinuteVals, t \in TickVals }

DmsInit ==
    /\ SchrodingerAtRest /\ IsingAtRest /\ DftAtRest /\ GpAtRest /\ ShoAtRest
    /\ dmsPc = "call"
    /\ dmsArg \in DmsInputs
    /\ dmsRet = <<>>

\* print(dd_2_dms(...)): one call.
DmsCall ==
    /\ dmsPc = "call"
    /\ dmsRet' = dd_2_dms(dmsArg)
    /\ dmsPc' = "done"
    /\ UNCHANGED dmsArg
    /\ UNCHANGED notDms

DmsNext == DmsCall

SpecDms == DmsInit /\ [][DmsNext]_vars

\* a is a whole number.
IsWhole(a) == a[2] = 1

\* a - b over the least common denominator.
Minus(a, b) ==
    LET l == (a[2] \div GCD(a[2], b[2])) * b[2]
    IN  Rat(a[1] * (l \div a[2]) - b[1] * (l \div b[2]), l)

\* What dd - degs is in seconds of arc, for a whole number degs.
SecondsBeyond(a, degs) == TimesInt(TimesInt(<<a[1] - degs * a[2], a[2]>>, 60), 60)

\* The returned tuple adds up to dd: the seconds of dd beyond degs and
\* 60 * mins + secs differ by at most half of 1/10000 second.
AddsUp(a, out) ==
    LET shown == Minus(SecondsBeyond(a, out[1][1]), TimesInt(out[2], 60))
        off == RAbs(Minus(shown, out[3]))
    IN  ~RLess(Rat(1, 20000), off)

\* dd_2_dms was called with dd >= 0.
CalledNonNegative == dmsPc = "done" /\ ~RLess(dmsArg, Zero)

\* For dd >= 0 the tuple has degs the integer part of dd, mins a whole
\* number in 0..59, 0 <= secs <= 60, and adds up to dd.
DmsUpToSixty ==
    CalledNonNegative =>
        /\ dmsRet[1] = FromInt(dmsArg[1] \div dmsArg[2])
        /\ IsWhole(dmsRet[2]) /\ dmsRet[2][1] \in 0..59
        /\ ~RLess(dmsRet[3], Zero) /\ ~RLess(FromInt(60), dmsRet[3])
        /\ AddsUp(dmsArg, dmsRet)

\* C25: for every input dd >= 0, dd_2_dms returns (degs, mins, secs) with
\* degs the integer part of dd, mins a whole number in 0..59, 0 <= secs < 60,
\* and degs + mins/60 + secs/3600 equal to dd up to the rounding of secs to
\* 4 decimal places.
C25_DegreesMinutesSeconds ==
    CalledNonNegative =>
        /\ dmsRet[1] = FromInt(dmsArg[1] \div dmsArg[2])
        /\ IsWhole(dmsRet[2]) /\ dmsRet[2][1] \in 0..59
        /\ ~RLess(dmsRet[3], Zero) /\ RLess(dmsRet[3], FromInt(60))
        /\ AddsUp(dmsArg, dmsRet)

\* ------- 3D Time Independent Schrödinger Equation.ipynb: sho_eigenenergies

\* The largest number of eigenvalues asked for.
MaxEigs == 3

\* The order of numpy's complex numbers: by real part, then by imaginary part.
ComplexLess(a, b) == RLess(a.re, b.re) \/ (a.re = b.re /\ RLess(a.im, b.im))

\* s in the order of the 0-based indices idx: evl[indices].
Take0(s, idx) == [k \in 1..Len(idx) |-> s[idx[k] + 1]]

\* The index arrays np.argsort(s) can return: the orders of 0..len(s)-1 that
\* put s in non-decreasing order, equal values in any order.
argsort(s) ==
    { idx \in [1..Len(s) -> 0..(Len(s) - 1)] :
        /\ \A k1, k2 \in 1..Len(s) : k1 # k2 => idx[k1] # idx[k2]
        /\ \A k \in 1..(Len(s) - 1) : ~ComplexLess(s[idx[k + 1] + 1], s[idx[k] + 1]) }

\* v put into a list in non-decreasing order, after the values equal to it.
RECURSIVE InsertSorted(_, _)
InsertSorted(v, s) ==
    IF s = <<>> THEN <<v>>
    ELSE IF ComplexLess(v, Head(s)) THEN <<v>> \o s
    ELSE <<Head(s)>> \o InsertSorted(v, Tail(s))

\* Variant: the list in the order it was given.
sorted_as_given(s) == s

\* Line 147: sorted(evl), a list of the values in non-decreasing order.
RECURSIVE sorted(_)
sorted(s) ==
    IF s = <<>> THEN <<>>
    ELSE InsertSorted(s[Len(s)], sorted(SubSeq(s, 1, Len(s) - 1)))

\* "{:.2f}".format(a): a to two decimals.
format2f(a) == RoundHalfEven(a, 100)

\* Lines 143 and 145: the lines printed.
HeaderLine == [number |-> 0, value |-> Zero, text |-> "Energy eigenvalues:"]
EnergyLine(number, a) == [number |-> number, value |-> format2f(a), text |-> "{}: {:.2f}"]

\* The eigenvalues the solver can answer with.
EigVals ==
    { Complex(Rat(5973, 2000), Zero), Complex(FromInt(5), Zero),
      Complex(FromInt(5), One), Complex(FromInt(7), FromInt(-1)) }

ShoInit ==
    /\ SchrodingerAtRest /\ IsingAtRest /\ DftAtRest /\ GpAtRest /\ DmsAtRest
    /\ shoPc = "call"
    /\ shoArgs \in [neigs : 1..MaxEigs]
    /\ shoEvl = <<>>
    /\ shoIndices = <<>>
    /\ shoPrinted = <<>>
    /\ shoRet = NoRet

\* Line 140: evl = schrodinger3D(..., neigs, E0, False): the neigs
\* eigenvalues of the eigensolver in the order it gave them, or its failure.
ShoSolve ==
    /\ shoPc = "call"
    /\ \/ /\ shoEvl' \in [1..shoArgs.neigs -> EigVals]
          /\ shoPc' = "argsort"
          /\ UNCHANGED shoRet
       \/ /\ shoRet' = Raised("EigsError", 79)
          /\ shoPc' = "done"
          /\ UNCHANGED shoEvl
    /\ UNCHANGED <<shoArgs, shoIndices, shoPrinted>>
    /\ UNCHANGED notSho

\* Lines 142-143: indices = np.argsort(evl); print("Energy eigenvalues:")
ShoArgsort ==
    /\ shoPc = "argsort"
    /\ shoIndices' \in argsort(shoEvl)
    /\ shoPrinted' = <<HeaderLine>>
    /\ shoPc' = "print"
    /\ UNCHANGED <<shoArgs, shoEvl, shoRet>>
    /\ UNCHANGED notSho

\* Lines 144-147: one line of the loop over enumerate(evl[indices]), or
\* return sorted(evl) after the last.
ShoPrint ==
    /\ shoPc = "print"
    /\ LET done == Len(shoPrinted) - 1
       IN  IF done < Len(shoIndices)
           THEN /\ shoPrinted' = Append(shoPrinted,
                                        EnergyLine(done + 1,
                                                   Take0(shoEvl, shoIndices)[done + 1].re))
                /\ UNCHANGED <<shoPc, shoRet>>
           ELSE /\ shoRet' = Returned(sorted(shoEvl))
                /\ shoPc' = "done"
                /\ UNCHANGED shoPrinted
    /\ UNCHANGED <<shoArgs, shoEvl, shoIndices>>
    /\ UNCHANGED notSho

ShoNext ==
    \/ ShoSolve
    \/ ShoArgsort
    \/ ShoPrint

SpecSho == ShoInit /\ [][ShoNext]_vars

\* out holds the values of s, each as often as s does.
SameMultiset(out, s) ==
    /\ Len(out) = Len(s)
    /\ \A k \in 1..Len(s) :
          Cardinality({q \in 1..Len(s) : s[q] = s[k]})
            = Cardinality({q \in 1..Len(out) : out[q] = s[k]})

\* a is b to two decimals.
ToTwoDecimals(a, b) ==
    /\ IsWhole(TimesInt(a, 100))
    /\ ~RLess(Rat(1, 200), RAbs(Minus(a, b)))

\* C27: the list sho_eigenenergies returns is in non-decreasing order, holds
\* the values schrodinger3D returned, each as often (neigs of them), and the
\* lines printed after the header are those values in that order, numbered
\* from 1.
C27_SortedPermutation ==
    shoRet.kind = "value" =>
        LET out == shoRet.val
        IN  /\ Len(out) = shoArgs.neigs
            /\ \A k \in 1..(Len(out) - 1) : ~ComplexLess(out[k + 1], out[k])
            /\ SameMultiset(out, shoEvl)
            /\ Len(shoPrinted) = Len(out) + 1
            /\ shoPrinted[1].text = "Energy eigenvalues:"
            /\ \A k \in 1..Len(out) :
                  /\ shoPrinted[k + 1].number = k
                  /\ ToTwoDecimals(shoPrinted[k + 1].value, out[k].re)

\* Three eigenvalues given out of order, two of them equal in the real part,
\* printed and returned.
C27_Witness ==
    /\ shoRet.kind = "value"
    /\ shoEvl = << Complex(FromInt(5), One), Complex(FromInt(5), Zero),
                   Complex(Rat(5973, 2000), Zero) >>
    /\ shoRet.val[1] = Complex(Rat(5973, 2000), Zero)
    /\ shoPrinted[2].value = Rat(299, 100)
    /\ shoPrinted[3].number = 2

====
